---- MODULE Spec2Model ----
(***************************************************************************)
(* Model of the ruspiro-console crate (src/src/lib.rs).                    *)
(*                                                                         *)
(* The crate keeps one static, CONSOLE, a Singleton<Console>.  A Console   *)
(* holds `current: Option<Box<dyn ConsoleImpl>>` and a DefaultConsole.     *)
(* print(s) runs `console.get_current().puts(s)` inside CONSOLE.take_for,  *)
(* and a console is installed with                                         *)
(* `CONSOLE.take_for(|cons| cons.replace(uart))`.  Several execution       *)
(* contexts (cores) run these two operations concurrently; each operation  *)
(* is broken into the steps another context could observe.                 *)
(***************************************************************************)
EXTENDS Integers, Sequences, FiniteSets, TLC

\* ---------------------------------------------------------------- bounds
NumCtx == 2
MaxEmits == 2
MaxSinks == 2

Ctx == 1..NumCtx
Sinks == 1..MaxSinks

\* the strings handed to print
Texts == {<<"a", "b">>, <<"c">>}

\* ------------------------------------------------------------- constants
\* Option::None of Console.current
None == 0 - 1
\* the Console.default field, the fallback console
DefaultConsole == 0
\* the Singleton's lock is not taken
NoCtx == 0
\* a context that is not inside get_current().puts() holds no reference
NoRef == 0 - 2
\* a context whose call was not made from inside a console's puts or drop
NoFrame == <<>>

VARIABLES
    lock,      \* the Singleton's guard: the context inside take_for, or NoCtx
    current,   \* Console.current: None or the boxed console
    pc,        \* per context: the step it is at
    text,      \* per context: the argument s of print
    sink,      \* per context: the console value moved into replace
    ref,       \* per context: the &dyn ConsoleImpl got from get_current
    pos,       \* per context: characters of s already sent by puts
    old,       \* per context: the value Option::replace returned, not yet dropped
    tk,        \* per context: position of its take_for in acq
    calls,     \* per console: the puts calls it received, <<ticket, s>>
    wire,      \* per console: the characters it sent out, <<ticket, char>>
    dropped,   \* per console: how often its Drop::drop has run
    acq,       \* the take_for calls in the order they got the lock
    nsinks,    \* consoles created so far
    nemits,    \* print calls made so far
    halted,    \* the program has ended
    outer      \* per context: the call it is nested in, waiting for a call
               \* made from inside a console's puts or drop (NoFrame: none)

vars == <<lock, current, pc, text, sink, ref, pos, old, tk, calls, wire,
          dropped, acq, nsinks, nemits, halted, outer>>

AllSinks == Sinks \cup {DefaultConsole}

\* ------------------------------------------------------- pure operations

\* Console::get_current that always hands out the fallback
get_currentFallback(cur) == DefaultConsole

\* Console::get_current: the boxed console if there is one, else the default
get_current(cur) == IF cur # None THEN cur ELSE DefaultConsole

\* an Option::replace that keeps an existing value and hands back the new one
Option_replaceKeep(cur, new) ==
    IF cur = None THEN [current |-> new, old |-> None]
    ELSE [current |-> cur, old |-> new]

\* a replace that forgets to store when a console is already there: it only
\* takes the previous value out
Option_replaceTake(cur, new) ==
    IF cur = None THEN [current |-> new, old |-> None]
    ELSE [current |-> None, old |-> cur]

\* a replace that hands back the default console when nothing was installed
Option_replaceDefault(cur, new) ==
    [current |-> new, old |-> IF cur = None THEN DefaultConsole ELSE cur]

\* Option::replace: store the new value, return the previous one
Option_replace(cur, new) == [current |-> new, old |-> cur]

\* Singleton::take_for entered without looking at the guard
CanAcquireUnguarded(l) == TRUE

\* Singleton::take_for may enter only when no context holds the guard
CanAcquire(l) == l = NoCtx

\* a take_for that returns without giving the guard back
ReleasedKeep(c) == c

\* Singleton::take_for on return: the guard is free again
Released(c) == NoCtx

\* a default console that sends what it is given
DefaultConsole_putsEcho(w, t, ch) == Append(w, <<t, ch>>)

\* DefaultConsole::puts does nothing
DefaultConsole_puts(w, t, ch) == w

\* a Drop that is skipped (the value is forgotten)
drop_in_placeForget(n) == n

\* dropping the Box<dyn ConsoleImpl> runs the console's Drop::drop once
drop_in_place(n) == n + 1

\* ConsoleImpl::puts of a real console (Uart0: send_string) sends one more
\* character of s
Uart_puts(w, t, ch) == Append(w, <<t, ch>>)

\* what a context has in hand while it runs a call: the basis of the frame
\* that is saved when a console's puts or drop makes a call of its own
Frame(c) == [pc |-> pc[c], text |-> text[c], sink |-> sink[c], ref |-> ref[c],
             pos |-> pos[c], old |-> old[c], tk |-> tk[c]]

\* where a returning call goes back to: the caller outside the registry, or
\* the puts or drop that made the call
Caller(c) ==
    IF outer[c] = NoFrame
    THEN [pc |-> "idle", text |-> <<>>, sink |-> None, ref |-> NoRef,
          pos |-> 0, old |-> None, tk |-> 0]
    ELSE outer[c]

\* ------------------------------------------------------------------ Init
Init ==
    /\ lock = NoCtx
    /\ current = None
    /\ pc = [c \in Ctx |-> "idle"]
    /\ text = [c \in Ctx |-> <<>>]
    /\ sink = [c \in Ctx |-> None]
    /\ ref = [c \in Ctx |-> NoRef]
    /\ pos = [c \in Ctx |-> 0]
    /\ old = [c \in Ctx |-> None]
    /\ tk = [c \in Ctx |-> 0]
    /\ calls = [s \in AllSinks |-> <<>>]
    /\ wire = [s \in AllSinks |-> <<>>]
    /\ dropped = [s \in AllSinks |-> 0]
    /\ acq = <<>>
    /\ nsinks = 0
    /\ nemits = 0
    /\ halted = FALSE
    /\ outer = [c \in Ctx |-> NoFrame]

\* ------------------------------------------------------------- print(s)

\* a context calls print(s)
PrintCall(c, t) ==
    /\ ~halted
    /\ pc[c] = "idle"
    /\ nemits < MaxEmits
    /\ pc' = [pc EXCEPT ![c] = "print_take"]
    /\ text' = [text EXCEPT ![c] = t]
    /\ nemits' = nemits + 1
    /\ UNCHANGED <<lock, current, sink, ref, pos, old, tk, calls, wire,
                   dropped, acq, nsinks, halted,
                   outer>>

\* CONSOLE.take_for(..) of print gets the guard
PrintTake(c) ==
    /\ pc[c] = "print_take"
    /\ CanAcquire(lock)
    /\ lock' = c
    /\ acq' = Append(acq, [op |-> "print", text |-> text[c], sink |-> current])
    /\ tk' = [tk EXCEPT ![c] = Len(acq) + 1]
    /\ pc' = [pc EXCEPT ![c] = "print_get"]
    /\ UNCHANGED <<current, text, sink, ref, pos, old, calls, wire, dropped,
                   nsinks, nemits, halted,
                   outer>>

\* console.get_current().puts(s): the reference is resolved and puts entered
PrintGetCurrent(c) ==
    /\ pc[c] = "print_get"
    /\ LET r == get_current(current) IN
        /\ ref' = [ref EXCEPT ![c] = r]
        /\ calls' = [calls EXCEPT ![r] = Append(@, <<tk[c], text[c]>>)]
    /\ pos' = [pos EXCEPT ![c] = 0]
    /\ pc' = [pc EXCEPT ![c] = "print_puts"]
    /\ UNCHANGED <<lock, current, text, sink, old, tk, wire, dropped, acq,
                   nsinks, nemits, halted,
                   outer>>

\* puts of a real console sends the next character of s
PrintPutsChar(c) ==
    /\ pc[c] = "print_puts"
    /\ ref[c] # DefaultConsole
    /\ pos[c] < Len(text[c])
    /\ wire' = [wire EXCEPT ![ref[c]] = Uart_puts(@, tk[c], text[c][pos[c] + 1])]
    /\ pos' = [pos EXCEPT ![c] = @ + 1]
    /\ UNCHANGED <<lock, current, pc, text, sink, ref, old, tk, calls,
                   dropped, acq, nsinks, nemits, halted,
                   outer>>

\* puts of the default console: the whole string is passed over in one go
PrintPutsDefault(c) ==
    /\ pc[c] = "print_puts"
    /\ ref[c] = DefaultConsole
    /\ pos[c] < Len(text[c])
    /\ wire' = [wire EXCEPT ![DefaultConsole] =
                    DefaultConsole_puts(@, tk[c], text[c][pos[c] + 1])]
    /\ pos' = [pos EXCEPT ![c] = Len(text[c])]
    /\ UNCHANGED <<lock, current, pc, text, sink, ref, old, tk, calls,
                   dropped, acq, nsinks, nemits, halted,
                   outer>>

\* puts returns, the closure ends, take_for gives the guard back, print returns
PrintReturn(c) ==
    /\ pc[c] = "print_puts"
    /\ pos[c] = Len(text[c])
    /\ lock' = Released(c)
    /\ LET f == Caller(c) IN
        /\ ref' = [ref EXCEPT ![c] = f.ref]
        /\ pc' = [pc EXCEPT ![c] = f.pc]
        /\ tk' = [tk EXCEPT ![c] = f.tk]
        /\ text' = [text EXCEPT ![c] = f.text]
        /\ pos' = [pos EXCEPT ![c] = f.pos]
    /\ outer' = [outer EXCEPT ![c] = NoFrame]
    /\ UNCHANGED <<current, sink, old, calls, wire, dropped, acq, nsinks,
                   nemits, halted>>

\* ------------------------------- CONSOLE.take_for(|cons| cons.replace(x))

\* a context creates a console and calls take_for to install it
InstallCall(c) ==
    /\ ~halted
    /\ pc[c] = "idle"
    /\ nsinks < MaxSinks
    /\ nsinks' = nsinks + 1
    /\ sink' = [sink EXCEPT ![c] = nsinks + 1]
    /\ pc' = [pc EXCEPT ![c] = "install_take"]
    /\ UNCHANGED <<lock, current, text, ref, pos, old, tk, calls, wire,
                   dropped, acq, nemits, halted,
                   outer>>

\* take_for of the install gets the guard
InstallTake(c) ==
    /\ pc[c] = "install_take"
    /\ CanAcquire(lock)
    /\ lock' = c
    /\ acq' = Append(acq, [op |-> "install", text |-> <<>>, sink |-> sink[c]])
    /\ tk' = [tk EXCEPT ![c] = Len(acq) + 1]
    /\ pc' = [pc EXCEPT ![c] = "install_replace"]
    /\ UNCHANGED <<current, text, sink, ref, pos, old, calls, wire, dropped,
                   nsinks, nemits, halted,
                   outer>>

\* Console::replace: self.current.replace(Box::from(console)) stores the new
\* console; the previous value is the statement's temporary
Replace(c) ==
    /\ pc[c] = "install_replace"
    /\ LET r == Option_replace(current, sink[c]) IN
        /\ current' = r.current
        /\ old' = [old EXCEPT ![c] = r.old]
    /\ pc' = [pc EXCEPT ![c] = "install_drop"]
    /\ UNCHANGED <<lock, text, sink, ref, pos, tk, calls, wire, dropped, acq,
                   nsinks, nemits, halted,
                   outer>>

\* the temporary is dropped at the end of the statement: Some(box) runs the
\* console's drop, None runs nothing
ReplaceDrop(c) ==
    /\ pc[c] = "install_drop"
    /\ dropped' = IF old[c] # None
                  THEN [dropped EXCEPT ![old[c]] = drop_in_place(@)]
                  ELSE dropped
    /\ old' = [old EXCEPT ![c] = None]
    /\ pc' = [pc EXCEPT ![c] = "install_return"]
    /\ UNCHANGED <<lock, current, text, sink, ref, pos, tk, calls, wire, acq,
                   nsinks, nemits, halted,
                   outer>>

\* the closure ends, take_for gives the guard back and returns
InstallReturn(c) ==
    /\ pc[c] = "install_return"
    /\ lock' = Released(c)
    /\ LET f == Caller(c) IN
        /\ sink' = [sink EXCEPT ![c] = f.sink]
        /\ tk' = [tk EXCEPT ![c] = f.tk]
        /\ pc' = [pc EXCEPT ![c] = f.pc]
        /\ old' = [old EXCEPT ![c] = f.old]
    /\ outer' = [outer EXCEPT ![c] = NoFrame]
    /\ UNCHANGED <<current, text, ref, pos, calls, wire, dropped, acq,
                   nsinks, nemits, halted>>

\* ------------------------------------------------------- end of program

\* The program ends.  CONSOLE is a static: it is never dropped, so nothing
\* of the registry runs here.
Halt ==
    /\ ~halted
    /\ \A c \in Ctx : pc[c] = "idle"
    /\ halted' = TRUE
    /\ UNCHANGED <<lock, current, pc, text, sink, ref, pos, old, tk, calls,
                   wire, dropped, acq, nsinks, nemits,
                   outer>>

\* the steps of a call that is under way
Run(c) ==
    \/ PrintTake(c)
    \/ PrintGetCurrent(c)
    \/ PrintPutsChar(c)
    \/ PrintPutsDefault(c)
    \/ PrintReturn(c)
    \/ InstallTake(c)
    \/ Replace(c)
    \/ ReplaceDrop(c)
    \/ InstallReturn(c)

Next ==
    \/ \E c \in Ctx, t \in Texts : PrintCall(c, t)
    \/ \E c \in Ctx : InstallCall(c)
    \/ \E c \in Ctx : Run(c)
    \/ Halt

Spec == Init /\ [][Next]_vars

\* every context (core) keeps executing the call it is in
FairSpec == Spec /\ \A c \in Ctx : WF_vars(Run(c))

\* --------------------------------- calls made from inside the registry
\* A console is code of the application: its puts or its drop may itself
\* call print or install a console.  That call runs in the same context,
\* which is inside take_for and holds the guard.

\* the context is inside a real console's puts, or inside the drop of a
\* displaced console
InConsoleCode(c) ==
    \/ pc[c] = "print_puts" /\ ref[c] \in Sinks
    \/ pc[c] = "install_drop" /\ old[c] # None

\* the console's puts or drop calls print(t)
ReenterPrint(c, t) ==
    /\ InConsoleCode(c)
    /\ outer[c] = NoFrame
    /\ outer' = [outer EXCEPT ![c] = Frame(c)]
    /\ pc' = [pc EXCEPT ![c] = "print_take"]
    /\ text' = [text EXCEPT ![c] = t]
    /\ ref' = [ref EXCEPT ![c] = NoRef]
    /\ pos' = [pos EXCEPT ![c] = 0]
    /\ tk' = [tk EXCEPT ![c] = 0]
    /\ UNCHANGED <<lock, current, sink, old, calls, wire, dropped, acq,
                   nsinks, nemits, halted>>

\* the console's puts or drop creates a console and calls take_for to
\* install it
ReenterInstall(c) ==
    /\ InConsoleCode(c)
    /\ outer[c] = NoFrame
    /\ nsinks < MaxSinks
    /\ nsinks' = nsinks + 1
    /\ outer' = [outer EXCEPT ![c] = Frame(c)]
    /\ pc' = [pc EXCEPT ![c] = "install_take"]
    /\ sink' = [sink EXCEPT ![c] = nsinks + 1]
    /\ old' = [old EXCEPT ![c] = None]
    /\ tk' = [tk EXCEPT ![c] = 0]
    /\ UNCHANGED <<lock, current, text, ref, pos, calls, wire, dropped, acq,
                   nemits, halted>>

NextReentrant ==
    \/ Next
    \/ \E c \in Ctx, t \in Texts : ReenterPrint(c, t)
    \/ \E c \in Ctx : ReenterInstall(c)

\* the program with consoles that may call back into the registry
SpecReentrant == Init /\ [][NextReentrant]_vars

\* ------------------------------------------------------ derived notions

\* the context is inside the closure passed to take_for
Inside(c) == pc[c] \in {"print_get", "print_puts", "install_replace",
                        "install_drop", "install_return"}

Tickets == 1..Len(acq)
PrintTickets == {k \in Tickets : acq[k].op = "print"}
InstallTickets == {k \in Tickets : acq[k].op = "install"}

\* the call that got the guard k-th is still under way
InProgress(k) == \E c \in Ctx : tk[c] = k

\* the step the call with ticket k is at ("idle" once it has returned)
PcOf(k) == IF InProgress(k) THEN pc[CHOOSE c \in Ctx : tk[c] = k] ELSE "idle"

\* the latest install that got the guard before ticket k (0: none)
PrevInstall(k) ==
    LET before == {j \in InstallTickets : j < k} IN
    IF before = {} THEN 0
    ELSE CHOOSE j \in before : \A i \in before : i <= j

\* the console that install k displaces
Displaced(k) == IF PrevInstall(k) = 0 THEN None ELSE acq[PrevInstall(k)].sink

\* the characters of a sequence of puts calls, in order
RECURSIVE Flat(_)
Flat(cs) ==
    IF cs = <<>> THEN <<>>
    ELSE LET h == Head(cs) IN
         [i \in 1..Len(h[2]) |-> <<h[1], h[2][i]>>] \o Flat(Tail(cs))

\* how many puts calls of console s carry ticket k
CallsOf(s, k) == Cardinality({i \in 1..Len(calls[s]) : calls[s][i][1] = k})

IsPrefix(a, b) == Len(a) <= Len(b) /\ \A i \in 1..Len(a) : a[i] = b[i]

\* ---------------------------------------------------------------- C1
\* C1: a print that got the guard while console S was installed (install(S)
\* completed, no later install yet) makes exactly one puts call, on S, with
\* exactly its text, and no puts call on the default console or on any
\* other console.
C1_InstallTakesEffect ==
    \A k \in PrintTickets :
        acq[k].sink # None =>
            /\ \A s \in AllSinks \ {acq[k].sink} : CallsOf(s, k) = 0
            /\ CallsOf(acq[k].sink, k) <= 1
            /\ PcOf(k) # "print_get" =>
                  /\ CallsOf(acq[k].sink, k) = 1
                  /\ \E i \in 1..Len(calls[acq[k].sink]) :
                        calls[acq[k].sink][i] = <<k, acq[k].text>>

\* a print made after a second console displaced the first has returned
C1_Witness ==
    \E k \in PrintTickets :
        /\ acq[k].sink = 2
        /\ ~InProgress(k)
        /\ calls[2] # <<>>

\* ---------------------------------------------------------------- C2
\* C2: an install that displaces console S1 drops S1 exactly once, not
\* before it got the guard and before it returns; while S2 is stored and S1
\* is not yet dropped no other context is inside the registry; S1 receives
\* no puts call of a print that got the guard after that install.
C2_DisplacementTeardown ==
    \A k \in InstallTickets :
        Displaced(k) # None =>
            LET done == PcOf(k) \in {"idle", "install_return"}
            IN /\ dropped[Displaced(k)] = (IF done THEN 1 ELSE 0)
               /\ PcOf(k) = "install_drop" =>
                     /\ current = acq[k].sink
                     /\ \A d \in Ctx :
                           IF tk[d] = k THEN old[d] = Displaced(k)
                           ELSE ~Inside(d) /\ ref[d] = NoRef
               /\ \A i \in 1..Len(calls[Displaced(k)]) :
                     calls[Displaced(k)][i][1] < k

\* install M1, install M2, then a print recorded by M2 while M1 has been
\* dropped
C2_Witness ==
    /\ current = 2
    /\ dropped[1] = 1
    /\ calls[2] # <<>>
    /\ \A c \in Ctx : pc[c] = "idle"

\* ---------------------------------------------------------------- C3
\* C3: as long as no install has been called, whatever prints were made, no
\* console has sent a character, no console other than the default one has
\* received a puts call, and every reference handed out is the default
\* console.
C3_FallbackSafety ==
    nsinks = 0 =>
        /\ \A s \in AllSinks : wire[s] = <<>>
        /\ \A s \in Sinks : calls[s] = <<>>
        /\ \A c \in Ctx : ref[c] \in {NoRef, DefaultConsole}
        /\ Len(calls[DefaultConsole]) + Cardinality({c \in Ctx :
               pc[c] \in {"print_take", "print_get"}}) = nemits

\* several prints have gone to the default console and returned
C3_Witness ==
    /\ nsinks = 0
    /\ Len(calls[DefaultConsole]) >= 2
    /\ \A c \in Ctx : pc[c] = "idle"

\* ---------------------------------------------------------------- C4
\* C4: what a console has sent is the texts of the puts calls it received,
\* each whole and in call order: never a character of another call inside a
\* text; once no puts is under way on it, the number of characters sent is
\* the sum of the lengths of the texts.
C4_NoInterleaving ==
    \A s \in Sinks :
        /\ IsPrefix(wire[s], Flat(calls[s]))
        /\ (\A c \in Ctx : ref[c] # s) => wire[s] = Flat(calls[s])

\* a context is in the middle of a text while another one waits to print
C4_Witness ==
    \E c, d \in Ctx :
        /\ c # d
        /\ pc[c] = "print_puts" /\ ref[c] \in Sinks
        /\ pos[c] = 1 /\ Len(text[c]) = 2
        /\ pc[d] = "print_take"

\* ---------------------------------------------------------------- C5
\* C5: at most one context is inside the registry, and it is the one that
\* holds the guard; when a displaced console is about to be dropped no
\* context holds a reference to it.
C5_MutualExclusion ==
    /\ Cardinality({c \in Ctx : Inside(c)}) <= 1
    /\ \A c \in Ctx : Inside(c) <=> lock = c
    /\ \A c \in Ctx :
          (pc[c] = "install_drop" /\ old[c] # None) =>
              \A d \in Ctx : ref[d] # old[c]

\* an install is about to drop the displaced console while another context
\* waits to print
C5_Witness ==
    \E c, d \in Ctx :
        /\ pc[c] = "install_drop" /\ old[c] # None
        /\ pc[d] = "print_take"

\* ---------------------------------------------------------------- C6
\* C6: a console receives puts calls, and sends their characters, in the
\* order in which the prints got the guard, each with the text of its print.
C6_AcquisitionOrder ==
    \A s \in AllSinks :
        /\ \A i, j \in 1..Len(calls[s]) :
              i < j => calls[s][i][1] < calls[s][j][1]
        /\ \A i, j \in 1..Len(wire[s]) :
              i < j => wire[s][i][1] <= wire[s][j][1]
        /\ \A i \in 1..Len(calls[s]) :
              /\ calls[s][i][1] \in PrintTickets
              /\ calls[s][i][2] = acq[calls[s][i][1]].text

\* "c" and then "ab" have been printed to an installed console
C6_Witness ==
    \E s \in Sinks :
        /\ Len(calls[s]) = 2
        /\ calls[s][1][2] = <<"c">>
        /\ calls[s][2][2] = <<"a", "b">>
        /\ Len(wire[s]) = 3
        /\ \A c \in Ctx : pc[c] = "idle"

\* ---------------------------------------------------------------- C7
\* C7: a context holds a reference to a console only while it holds the
\* guard inside take_for, the reference is to the console current at that
\* time, never to a console whose drop has run or is pending; and a console
\* whose drop has run or is pending receives no further puts call and sends
\* no further character.
C7_RefInsideWindow ==
    \A c \in Ctx :
        /\ ref[c] # NoRef =>
              /\ lock = c
              /\ pc[c] = "print_puts"
              /\ ref[c] = get_current(current)
              /\ dropped[ref[c]] = 0
              /\ \A d \in Ctx : old[d] # ref[c]
        /\ pc[c] # "print_puts" => ref[c] = NoRef

C7_TeardownStarted(s) == dropped[s] > 0 \/ \E c \in Ctx : old[c] = s

C7_NoUseAfterTeardown ==
    /\ []C7_RefInsideWindow
    /\ [][\A s \in Sinks : C7_TeardownStarted(s) =>
              calls'[s] = calls[s] /\ wire'[s] = wire[s]]_vars

\* a console that received text has been dropped and a print to its
\* successor is under way
C7_Witness ==
    /\ dropped[1] = 1
    /\ calls[1] # <<>>
    /\ \E c \in Ctx : ref[c] = 2 /\ pos[c] = 1

\* ---------------------------------------------------------------- C8
\* C8: every install call gets the guard and returns; while it holds the
\* guard after Console::replace its argument is the current console; when no
\* install is between getting the guard and storing, the current console is
\* the argument of the install that got the guard last (None if there was
\* none).
C8_LastInstall ==
    /\ \A c \in Ctx :
          pc[c] \in {"install_drop", "install_return"} =>
              current = sink[c] /\ current \in Sinks
    /\ (\A c \in Ctx : pc[c] # "install_replace") =>
          current = Displaced(Len(acq) + 1)

C9_Original ==
    halted => \A s \in 1..nsinks : dropped[s] = 1

\* C9 amended: the drop of an installed console runs at most once: exactly
\* once, inside the install that displaces it, and never for the console
\* that is current, also not when the program ends (CONSOLE is a static and
\* is not dropped).
C9_TeardownAtMostOnce ==
    /\ \A s \in Sinks : dropped[s] <= 1
    /\ current # None => dropped[current] = 0
    /\ dropped[DefaultConsole] = 0
    /\ (halted \/ \A c \in Ctx : pc[c] = "idle") =>
          \A s \in 1..nsinks : dropped[s] = (IF s = current THEN 0 ELSE 1)

\* the program has ended with one console displaced and one still current
C9_Witness ==
    /\ halted
    /\ nsinks = 2
    /\ current \in Sinks
    /\ \E s \in Sinks : dropped[s] = 1

LastStored ==
    LET stored == {k \in InstallTickets : PcOf(k) # "install_replace"} IN
    IF stored = {} THEN None
    ELSE acq[CHOOSE k \in stored : \A j \in stored : j <= k].sink

\* C12: in every state get_current resolves to exactly one console: the
\* console of the latest install if there has been one, the default console
\* otherwise; it is never the default console while a console is installed,
\* never a console whose drop has run or is pending, and every reference
\* handed out is that console.
C12_OneCurrentSink ==
    LET cs == get_current(current) IN
    /\ current \in Sinks \cup {None}
    /\ cs = (IF LastStored # None THEN LastStored ELSE DefaultConsole)
    /\ (cs = DefaultConsole) <=> (InstallTickets = {} \/ LastStored = None)
    /\ dropped[cs] = 0
    /\ \A c \in Ctx : old[c] # cs /\ (ref[c] # NoRef => ref[c] = cs)

\* a second console is installed, the first has been dropped, and a print
\* holds the reference it got from get_current
C12_Witness ==
    /\ current = 2
    /\ dropped[1] = 1
    /\ \E c \in Ctx : pc[c] = "print_puts" /\ ref[c] = 2

\* --------------------------------------------------------------- C13
\* C13: whenever the drop of a console runs, it runs in a context that holds
\* the guard inside an install whose console is already stored as current,
\* the dropped console is the one that install displaced, and the guard is
\* still held after the drop; when the guard is given back by an install
\* nothing is left to drop.
C13_DropStep(s) ==
    \E c \in Ctx :
        /\ lock = c /\ lock' = c
        /\ pc[c] = "install_drop" /\ pc'[c] = "install_return"
        /\ old[c] = s
        /\ current = sink[c] /\ current' = current
        /\ s # current
        /\ dropped'[s] = dropped[s] + 1

C13_StoreThenDropThenRelease ==
    /\ [][\A s \in AllSinks : dropped'[s] # dropped[s] => C13_DropStep(s)]_vars
    /\ [][\A c \in Ctx : (lock = c /\ lock' # c) =>
              old[c] = None /\ pc[c] \in {"print_puts", "install_return"}]_vars
    /\ [](\A c \in Ctx : pc[c] = "install_return" =>
              current = sink[c] /\ old[c] = None
              /\ \A k \in InstallTickets :
                    (tk[c] = k /\ Displaced(k) # None) =>
                        dropped[Displaced(k)] = 1)

\* an install has stored the second console and dropped the first, and
\* still holds the guard
C13_Witness ==
    \E c \in Ctx :
        /\ pc[c] = "install_return"
        /\ lock = c
        /\ current = sink[c]
        /\ \E s \in Sinks : s # current /\ dropped[s] = 1

\* --------------------------------------------------------------- C14
\* the context made a call from inside a console's puts or drop and that
\* call waits for the guard the context itself holds
C14_Stuck(c) ==
    /\ outer[c] # NoFrame
    /\ pc[c] \in {"print_take", "install_take"}
    /\ lock = c

\* C14: a call made from inside a console's puts or drop never gets the
\* guard, and the call it was made from never goes on: from then on the
\* context stays where it is, the guard is never given back, no call of any
\* context gets the guard, and the registry is not changed.
C14_ReentryDeadlocks ==
    /\ [](\A c \in Ctx : outer[c] # NoFrame => C14_Stuck(c))
    /\ [][\A c \in Ctx : C14_Stuck(c) =>
              /\ pc'[c] = pc[c]
              /\ outer'[c] = outer[c]
              /\ lock' = lock
              /\ acq' = acq
              /\ current' = current
              /\ calls' = calls
              /\ dropped' = dropped]_vars

\* a console's puts has called print in the middle of a text, and the other
\* context waits to print
C14_Witness ==
    \E c, d \in Ctx :
        /\ C14_Stuck(c)
        /\ outer[c].pc = "print_puts" /\ outer[c].pos = 1
        /\ pc[c] = "print_take"
        /\ pc[d] = "print_take" /\ outer[d] = NoFrame

\* --------------------------------------------------------------- C15
\* C15: the default console is never stored in or taken out of `current`,
\* never the value an install displaces and never dropped; it goes on
\* receiving nothing but the prints made while `current` was None; and the
\* install that finds `current` empty has nothing to drop: as long as at
\* most one install has got the guard no drop has run.
C15_FallbackUntouched ==
    /\ dropped[DefaultConsole] = 0
    /\ current # DefaultConsole
    /\ \A c \in Ctx : old[c] # DefaultConsole /\ sink[c] # DefaultConsole
    /\ wire[DefaultConsole] = <<>>
    /\ \A i \in 1..Len(calls[DefaultConsole]) :
          acq[calls[DefaultConsole][i][1]].sink = None
    /\ Cardinality(InstallTickets) <= 1 =>
          /\ \A s \in AllSinks : dropped[s] = 0
          /\ \A c \in Ctx : old[c] = None

\* the first install is past the point where the previous value is dropped,
\* after the default console had received a print
C15_Witness ==
    \E c \in Ctx :
        /\ pc[c] = "install_return"
        /\ Cardinality(InstallTickets) = 1
        /\ calls[DefaultConsole] # <<>>
        /\ current = sink[c]

\* --------------------------------------------------------------- C16
\* the registry: which console is installed, what is pending drop, what has
\* been dropped, how many consoles exist
C16_Registry == <<current, old, dropped, nsinks>>

\* C16: no step of a print changes the registry, and from the moment a
\* print gets the guard until it returns `current` is what it was when the
\* print got the guard; `current` changes only in the Console::replace step
\* of an install, and a drop runs only in an install.
C16_PrintLeavesRegistry ==
    /\ [][\A c \in Ctx :
              (pc[c] \in {"print_take", "print_get", "print_puts"}
                  /\ (pc'[c] # pc[c] \/ pos'[c] # pos[c])) =>
                  C16_Registry' = C16_Registry]_vars
    /\ [][\A c \in Ctx, t \in Texts :
              PrintCall(c, t) => C16_Registry' = C16_Registry]_vars
    /\ [][current' # current =>
              \E c \in Ctx : pc[c] = "install_replace" /\ current' = sink[c]]_vars
    /\ [][dropped' # dropped => \E c \in Ctx : pc[c] = "install_drop"]_vars
    /\ [](\A c \in Ctx :
              pc[c] \in {"print_get", "print_puts"} =>
                  /\ current = acq[tk[c]].sink
                  /\ \A d \in Ctx : old[d] = None)

\* a print to an installed console has sent its whole text and the console
\* is still the installed one
C16_Witness ==
    \E c \in Ctx :
        /\ pc[c] = "print_puts"
        /\ ref[c] \in Sinks
        /\ pos[c] = Len(text[c])
        /\ current = ref[c]

\* --------------------------------------------------------------- C17
\* the consoles that an install has handed to the registry
C17_Installed == {acq[k].sink : k \in InstallTickets}

RECURSIVE C17_Sum(_, _)
C17_Sum(f, S) ==
    IF S = {} THEN 0
    ELSE LET x == CHOOSE y \in S : TRUE IN f[x] + C17_Sum(f, S \ {x})

\* C17: whenever no install holds the guard, every console ever installed
\* is either the current one and not dropped, or not the current one and
\* dropped exactly once; after n >= 1 installs n - 1 drops have run in all,
\* none of them of the console installed last; a console not yet installed
\* has not been dropped.
C17_TeardownCount ==
    (\A c \in Ctx : pc[c] \notin {"install_replace", "install_drop",
                                  "install_return"}) =>
        LET n == Cardinality(InstallTickets) IN
        /\ Cardinality(C17_Installed) = n
        /\ \A s \in C17_Installed :
              \/ s = current /\ dropped[s] = 0
              \/ s # current /\ dropped[s] = 1
        /\ \A s \in AllSinks \ C17_Installed : dropped[s] = 0
        /\ n >= 1 =>
              /\ C17_Sum(dropped, AllSinks) = n - 1
              /\ current = Displaced(Len(acq) + 1)
              /\ dropped[current] = 0
        /\ n = 0 => current = None

\* two installs have completed: one drop has run, of the first console
C17_Witness ==
    /\ \A c \in Ctx : pc[c] = "idle"
    /\ Cardinality(InstallTickets) = 2
    /\ C17_Sum(dropped, AllSinks) = 1
    /\ dropped[current] = 0

\* --------------------------------------------------------------- C18
\* C18: once `current` holds a console it never is None again, and from
\* then on the default console receives no puts call: every puts call it
\* ever received belongs to a print that got the guard before the first
\* install did.
C18_NeverAbsentAgain ==
    /\ [][current # None =>
              current' # None /\ calls'[DefaultConsole] = calls[DefaultConsole]]_vars
    /\ [](InstallTickets # {} =>
              /\ (\A c \in Ctx : pc[c] # "install_replace") => current # None
              /\ \A i \in 1..Len(calls[DefaultConsole]) :
                    \A k \in InstallTickets : calls[DefaultConsole][i][1] < k)

\* after a print to the default console, two installs and a print to the
\* second console have completed
C18_Witness ==
    /\ calls[DefaultConsole] # <<>>
    /\ Cardinality(InstallTickets) = 2
    /\ current # None
    /\ calls[current] # <<>>
    /\ \A c \in Ctx : pc[c] = "idle"

====
